---- MODULE Spec2Model ----
(***************************************************************************)
(* The probe orchestrator of src/src/app/page.tsx: the component state of  *)
(* NetworkTestApp and the asynchronous function fetchData with its helper  *)
(* fetchTest.  One action is one task of the JavaScript event loop: the    *)
(* arrival of a network event together with every continuation that runs   *)
(* before the next await suspends on the network again.  Its behaviours    *)
(* are those of Spec.                                                      *)
(*                                                                         *)
(* The transfer estimator of src/unnamed/part_000: the component state of  *)
(* FileTransferEstimator, its input handlers and handleEstimate, one       *)
(* action per event.  Its behaviours are those of EstimatorSpec; ConvSpec  *)
(* applies the two unit conversions to a given size and unit.  MonitorSpec *)
(* starts with the view closed, as the page renders it, and adds the       *)
(* opening and the closing of the view and the ticks of its bandwidth      *)
(* simulator.  The two components share no other state.                    *)
(***************************************************************************)
EXTENDS Integers, Sequences, FiniteSets, TLC

(***************************************************************************)
(* Bounds of the model.                                                    *)
(***************************************************************************)
\* number of fetchData invocations (the mount effect plus Refresh clicks)
MaxCycles == 2
\* what a behaviour may deviate from the nominal run in which every request is
\* answered at once with its usual answer: a failing answer (a rejected fetch, a
\* non-OK status on a request that checks it, a missing or broken body stream)
\* and a millisecond of the clock weigh one, an answer that succeeds with an
\* unusual content weighs two
MaxDeviation == 3
\* number of answers in a behaviour that succeed with an unusual content
MaxOdd == 1
\* milliseconds the clock can advance in a behaviour
MaxTime == 1
\* what a behaviour may deviate once Refresh is pressed
MaxOverlapDeviation == 0
\* changes of the estimator's inputs (file list and configuration) in a behaviour
MaxEdits == 4
\* estimation requests in a behaviour
MaxRequests == 2
\* times the estimator view is opened in a behaviour
MaxOpens == 2
\* ticks of the bandwidth simulator in a behaviour
MaxTicks == 2
\* changes of the estimator's inputs in a behaviour in which the view is opened
\* and closed
MaxViewEdits == 2

(***************************************************************************)
(* JavaScript values.  A string is a sequence of tokens; every decimal     *)
(* digit is a token of its own, so that formatting a number and parsing it *)
(* back are computed, not assumed.                                         *)
(***************************************************************************)
Str(s) == [ty |-> "string", s |-> s, n |-> 0]
NumV(n) == [ty |-> "number", s |-> <<>>, n |-> n]
Undefined == [ty |-> "undefined", s |-> <<>>, n |-> 0]

\* a number: finite (held in hundredths), NaN or Infinity
Fin(v) == [k |-> "fin", v |-> v]
NaN == [k |-> "nan", v |-> 0]
Infinity == [k |-> "inf", v |-> 0]

DigitChars == <<"0", "1", "2", "3", "4", "5", "6", "7", "8", "9">>

RECURSIVE Digits(_)
Digits(n) ==
  IF n < 10 THEN <<DigitChars[n + 1]>>
  ELSE Digits(n \div 10) \o <<DigitChars[(n % 10) + 1]>>

\* `${v}` in a template literal
ToStringV(v) ==
  CASE v.ty = "string" -> v.s
    [] v.ty = "number" -> Digits(v.n)
    [] OTHER -> <<"undefined">>

\* the operand of || counts as true
Truthy(v) ==
  CASE v.ty = "string" -> Len(v.s) > 0
    [] v.ty = "number" -> v.n # 0
    [] OTHER -> FALSE

IsDigit(t) == \E d \in 1..10 : DigitChars[d] = t
DigitVal(t) == (CHOOSE d \in 1..10 : DigitChars[d] = t) - 1

\* the digits a string starts with
RECURSIVE DigitPrefix(_)
DigitPrefix(s) ==
  IF s = <<>> \/ ~IsDigit(Head(s)) THEN <<>>
  ELSE <<Head(s)>> \o DigitPrefix(Tail(s))

RECURSIVE DigitsValue(_, _)
DigitsValue(s, acc) ==
  IF s = <<>> THEN acc ELSE DigitsValue(Tail(s), acc * 10 + DigitVal(Head(s)))

\* parseFloat of a string: the decimal number it starts with, in hundredths (two
\* decimals are kept, no string of the program carries more); NaN when it
\* starts with none
ParseFloatStr(s) ==
  IF s # <<>> /\ Head(s) = "Infinity" THEN Infinity
  ELSE LET ip == DigitPrefix(s)
           rest == SubSeq(s, Len(ip) + 1, Len(s))
           fp == IF rest # <<>> /\ Head(rest) = "." THEN DigitPrefix(Tail(rest)) ELSE <<>>
       IN IF ip = <<>> /\ fp = <<>> THEN NaN
          ELSE Fin(DigitsValue(ip, 0) * 100
                   + (IF Len(fp) >= 1 THEN DigitVal(fp[1]) * 10 ELSE 0)
                   + (IF Len(fp) >= 2 THEN DigitVal(fp[2]) ELSE 0))

\* parseFloat(v), which first converts v to a string
ParseFloat(v) ==
  CASE v.ty = "undefined" -> NaN
    [] OTHER -> ParseFloatStr(ToStringV(v))

\* toFixed(2) of a number held in hundredths
Fixed2(x) ==
  CASE x.k = "nan" -> <<"NaN">>
    [] x.k = "inf" -> <<"Infinity">>
    [] OTHER -> Digits(x.v \div 100) \o <<".">>
                  \o <<DigitChars[((x.v % 100) \div 10) + 1], DigitChars[(x.v % 10) + 1]>>

\* (bytes / (ms / 1000)) / 1024 / 1024 rounded to hundredths of a MB/s, which is
\* all that toFixed(2) lets the program observe of it
Speed(bytes, ms) ==
  IF ms = 0 THEN (IF bytes = 0 THEN NaN ELSE Infinity)
  ELSE Fin((2 * bytes * 3125 + ms * 32768) \div (2 * ms * 32768))

RECURSIVE Sum(_)
Sum(s) == IF s = <<>> THEN 0 ELSE Head(s) + Sum(Tail(s))

(***************************************************************************)
(* The probes of fetchData.                                                *)
(***************************************************************************)
Retries == 3

IpProbe == [endpoint |-> "ip", key |-> "ip"]
PingProbe == [endpoint |-> "ping", key |-> "ping"]

\* variant: the open-ports probe is given the key of the nmap probe
TrailingProbesSharedKey ==
  << [endpoint |-> "nmap", key |-> "nmap"],
     [endpoint |-> "open-ports", key |-> "nmap"],
     [endpoint |-> "services", key |-> "services"],
     [endpoint |-> "vuln-scan", key |-> "vuln"],
     [endpoint |-> "ssl-check", key |-> "ssl"],
     [endpoint |-> "firewall-check", key |-> "firewall"] >>

TrailingProbes ==
  << [endpoint |-> "nmap", key |-> "nmap"],
     [endpoint |-> "open-ports", key |-> "ports"],
     [endpoint |-> "services", key |-> "services"],
     [endpoint |-> "vuln-scan", key |-> "vuln"],
     [endpoint |-> "ssl-check", key |-> "ssl"],
     [endpoint |-> "firewall-check", key |-> "firewall"] >>

FetchProbes == <<IpProbe, PingProbe>> \o TrailingProbes
FetchEndpoints == {FetchProbes[j].endpoint : j \in DOMAIN FetchProbes}
TrailingEndpoints == {TrailingProbes[j].endpoint : j \in DOMAIN TrailingProbes}
KeyOf(e) == FetchProbes[CHOOSE j \in DOMAIN FetchProbes : FetchProbes[j].endpoint = e].key

Keys == {"ip", "ping", "download", "upload", "nmap", "ports", "services", "vuln",
         "ssl", "firewall"}

Placeholders ==
  [k \in Keys |->
     CASE k = "ip" -> Str(<<"Fetching...">>)
       [] k \in {"ping", "download", "upload"} -> Str(<<"Testing...">>)
       [] k \in {"nmap", "ports", "vuln"} -> Str(<<"Scanning...">>)
       [] k = "services" -> Str(<<"Detecting...">>)
       [] OTHER -> Str(<<"Checking...">>)]

\* useState<Result>({}): no key is present
EmptyResults == [k \in Keys |-> Undefined]

(***************************************************************************)
(* What the backend can answer.                                            *)
(***************************************************************************)
\* a fetchTest request: the fetch rejects (net), or resolves with a status and
\* a JSON body of which the program reads data[key] (val) and data.error (err)
NominalFetch == [net |-> FALSE, status |-> 200, val |-> Str(<<"v">>), err |-> Undefined]
FetchResponses ==
  { NominalFetch,
    [net |-> FALSE, status |-> 200, val |-> NumV(999), err |-> Undefined],
    [net |-> FALSE, status |-> 200, val |-> NumV(0), err |-> Undefined],
    [net |-> FALSE, status |-> 200, val |-> Undefined, err |-> Str(<<"e">>)],
    [net |-> FALSE, status |-> 200, val |-> Undefined, err |-> Undefined],
    [net |-> FALSE, status |-> 500, val |-> Undefined, err |-> Undefined],
    [net |-> TRUE, status |-> 0, val |-> Undefined, err |-> Undefined] }

\* the download request: the fetch rejects (net), or resolves with a status, a
\* Content-Length header (0 when absent: Number(null)) and a body stream, which
\* is missing when hasBody is false
NominalDownload ==
  [net |-> FALSE, status |-> 200, hasBody |-> TRUE, cl |-> 4096, body |-> <<1024, 3072>>]
DownloadResponses ==
  { NominalDownload,
    [net |-> FALSE, status |-> 200, hasBody |-> TRUE, cl |-> 0, body |-> <<1024, 3072>>],
    [net |-> FALSE, status |-> 200, hasBody |-> TRUE, cl |-> 2048, body |-> <<1024, 3072>>],
    [net |-> FALSE, status |-> 200, hasBody |-> TRUE, cl |-> 0, body |-> <<>>],
    [net |-> FALSE, status |-> 500, hasBody |-> TRUE, cl |-> 1024, body |-> <<1024>>],
    [net |-> FALSE, status |-> 200, hasBody |-> FALSE, cl |-> 0, body |-> <<>>],
    [net |-> TRUE, status |-> 0, hasBody |-> FALSE, cl |-> 0, body |-> <<>>] }

\* the upload request: the fetch rejects (net), or resolves with a status and a
\* JSON body of which the program reads uploadTime
NominalUpload == [net |-> FALSE, status |-> 200, uploadTime |-> Undefined]
UploadResponses ==
  { NominalUpload,
    [net |-> FALSE, status |-> 200, uploadTime |-> NumV(2)],
    [net |-> FALSE, status |-> 200, uploadTime |-> NumV(0)],
    [net |-> FALSE, status |-> 500, uploadTime |-> Undefined],
    [net |-> TRUE, status |-> 0, uploadTime |-> Undefined] }

\* response.ok
Ok(resp) == resp.status >= 200 /\ resp.status <= 299

StatusText(resp) == IF resp.status = 500 THEN <<"Internal Server Error">> ELSE <<"OK">>


(***************************************************************************)
(* fetchTest: one run of the retry loop is the record                      *)
(*   st    "idle" (not called), "wait" (its fetch is pending) or "done"    *)
(*   i     the loop variable                                               *)
(*   reqs  how many requests it has issued                                 *)
(*   log   the answers it has received, in order                           *)
(*   wrote the last value it passed to setResults, Undefined when none     *)
(***************************************************************************)
InitRun == [st |-> "idle", i |-> 0, reqs |-> 0, log |-> <<>>, wrote |-> Undefined]

\* const response = await fetch(API_URL + endpoint)
Issue(run) == [run EXCEPT !.st = "wait", !.reqs = @ + 1]

\* the call: let i = 0, then the first fetch
CallFetchTest(run) == Issue([run EXCEPT !.i = 0])

\* for (...; i < retries; ...)
LoopContinues(i) == i < Retries

\* variant: the failure of the first attempt is the one reported
LastAttemptFirst(i) == i = 0

\* variant: the catch block stores the failure of every attempt
LastAttemptEvery(i) == TRUE

\* if (i === retries - 1)
LastAttempt(i) == i = Retries - 1

\* the attempt reaches setResults of the try block
FetchSucceeds(resp) == ~resp.net /\ Ok(resp)

\* (error as Error).message of a failed attempt
ErrMessage(resp) ==
  IF resp.net THEN <<"Failed to fetch">>
  ELSE <<"HTTP error! status: ">> \o Digits(resp.status)

\* data[key] || `Error: ${data.error}`
StoredOnSuccess(resp) ==
  IF Truthy(resp.val) THEN resp.val ELSE Str(<<"Error: ">> \o ToStringV(resp.err))

\* `Request failed: ${(error as Error).message}`
RequestFailed(resp) == Str(<<"Request failed: ">> \o ErrMessage(resp))

\* variant: the catch block logs the failure and stores nothing
AttemptWriteOnSuccess(i, resp) ==
  IF FetchSucceeds(resp) THEN StoredOnSuccess(resp) ELSE Undefined

\* the value one attempt passes to setResults, Undefined when it passes none
AttemptWrite(i, resp) ==
  IF FetchSucceeds(resp) THEN StoredOnSuccess(resp)
  ELSE IF LastAttempt(i) THEN RequestFailed(resp)
  ELSE Undefined

\* variant: a successful attempt stores its value but does not return
AfterAttemptNoReturn(run, resp) ==
  LET w == AttemptWrite(run.i, resp)
      n == [run EXCEPT !.log = Append(@, resp),
                       !.wrote = IF w = Undefined THEN @ ELSE w,
                       !.i = @ + 1]
  IN IF LoopContinues(n.i) THEN Issue(n) ELSE [n EXCEPT !.st = "done"]

\* the run after the answer to its pending fetch: return on success, otherwise
\* i++ and the next fetch while the loop condition holds
AfterAttempt(run, resp) ==
  LET w == AttemptWrite(run.i, resp)
      logged == [run EXCEPT !.log = Append(@, resp),
                            !.wrote = IF w = Undefined THEN @ ELSE w]
  IN IF FetchSucceeds(resp) THEN [logged EXCEPT !.st = "done"]
     ELSE LET n == [logged EXCEPT !.i = @ + 1]
          IN IF LoopContinues(n.i) THEN Issue(n) ELSE [n EXCEPT !.st = "done"]

\* variant: the value is stored in a copy of the placeholders, not of the
\* previous results
WriteKeyOverRendered(res, key, v) ==
  IF v = Undefined THEN res ELSE [Placeholders EXCEPT ![key] = v]

\* setResults((prev) => ({ ...prev, [key]: v }))
WriteKey(res, key, v) == IF v = Undefined THEN res ELSE [res EXCEPT ![key] = v]

\* `${Date.now() - startTime}ms`
PingString(ms) == Str(Digits(ms) \o <<"ms">>)

\* `Download Speed: ${downloadSpeed.toFixed(2)} MB/s`
DownloadString(speed) == Str(<<"Download Speed: ">> \o Fixed2(speed) \o <<" MB/s">>)

\* `Upload Speed: ${uploadSpeed.toFixed(2)} MB/s`
UploadString(speed) == Str(<<"Upload Speed: ">> \o Fixed2(speed) \o <<" MB/s">>)

\* `Upload failed: ${(error as Error).message}`, the error being the fetch's
\* rejection or new Error(`Upload failed: ${uploadResponse.statusText}`)
UploadFailedString(resp) ==
  Str(<<"Upload failed: ">>
        \o (IF resp.net THEN <<"Failed to fetch">>
            ELSE <<"Upload failed: ">> \o StatusText(resp)))

\* parseFloat(x.toFixed(2))
ParseFixed2(x) == ParseFloatStr(Fixed2(x))

\* (receivedLength / Number(content-length)) * 100, as the fraction num/den
Progress(received, cl) == [num |-> received * 100, den |-> cl]


(***************************************************************************)
(* The transfer estimator of src/unnamed/part_000.  Its numbers are held   *)
(* exactly: a finite one is (n / d) * 2^e with n and d odd and coprime     *)
(* (zero is 0/1 * 2^0), next to NaN and the two infinities a division by   *)
(* zero gives.  The rounding of the double arithmetic is left out; toFixed *)
(* rounds the exact value, a tie upwards in magnitude.                     *)
(***************************************************************************)
Abs(n) == IF n < 0 THEN -n ELSE n
Min(a, b) == IF a <= b THEN a ELSE b

RECURSIVE GCD(_, _)
GCD(a, b) == IF b = 0 THEN a ELSE GCD(b, a % b)

\* how often 2 divides n, n # 0
RECURSIVE TwoAdic(_)
TwoAdic(n) == IF n % 2 = 0 THEN 1 + TwoAdic(n \div 2) ELSE 0

QNaN == [k |-> "nan", n |-> 0, d |-> 1, e |-> 0]
QInf(sign) == [k |-> "inf", n |-> sign, d |-> 1, e |-> 0]

\* the finite number (n / d) * 2^e, d > 0, in its normal form
Q(n, d, e) ==
  IF n = 0 THEN [k |-> "fin", n |-> 0, d |-> 1, e |-> 0]
  ELSE LET g == GCD(Abs(n), d)
           a == TwoAdic(Abs(n) \div g)
           b == TwoAdic(d \div g)
       IN [k |-> "fin",
           n |-> (IF n < 0 THEN -1 ELSE 1) * ((Abs(n) \div g) \div 2^a),
           d |-> (d \div g) \div 2^b,
           e |-> e + a - b]

QInt(n) == Q(n, 1, 0)
Sign(x) == IF x.n > 0 THEN 1 ELSE IF x.n < 0 THEN -1 ELSE 0
Neg(x) == [x EXCEPT !.n = -x.n]

\* x * y of two finite numbers
Mul(x, y) ==
  IF x.n = 0 \/ y.n = 0 THEN Q(0, 1, 0)
  ELSE LET g1 == GCD(Abs(x.n), y.d)
           g2 == GCD(Abs(y.n), x.d)
       IN [k |-> "fin",
           n |-> (x.n \div g1) * (y.n \div g2),
           d |-> (x.d \div g2) * (y.d \div g1),
           e |-> x.e + y.e]

\* x / y of two finite numbers: 0/0 is NaN, another division by 0 is infinite
Div(x, y) ==
  IF y.n = 0 THEN (IF x.n = 0 THEN QNaN ELSE QInf(Sign(x)))
  ELSE Mul(x, [k |-> "fin", n |-> Sign(y) * y.d, d |-> Abs(y.n), e |-> -y.e])

\* x + y, y finite
Add(x, y) ==
  IF x.k # "fin" \/ y.n = 0 THEN x
  ELSE IF x.n = 0 THEN y
  ELSE LET e == Min(x.e, y.e)
       IN Q(x.n * 2^(x.e - e) * y.d + y.n * 2^(y.e - e) * x.d, x.d * y.d, e)

\* x <= y of two finite numbers
Leq(x, y) == Sign(Add(x, Neg(y))) <= 0

\* x >= 2^p of a finite number
AtLeastPow2(x, p) ==
  /\ x.n > 0
  /\ LET s == x.e - p
     IN IF s >= 0 THEN s >= 30 \/ x.n >= (x.d + 2^s - 1) \div 2^s
        ELSE -s < 30 /\ x.n \div 2^(-s) >= x.d

\* x * 100 rounded to an integer, a tie away from zero: the digits toFixed(2)
\* prints
Hundredths(x) ==
  LET m == IF x.e + 2 >= 0 THEN Abs(x.n) * 25 * 2^(x.e + 2) ELSE Abs(x.n) * 25
      den == IF x.e + 2 >= 0 THEN x.d ELSE x.d * 2^(-(x.e + 2))
  IN Sign(x) * ((2 * m + den) \div (2 * den))

\* size.toFixed(2) of a finite number
ToFixed2(x) ==
  (IF Hundredths(x) < 0 THEN <<"-">> ELSE <<>>) \o Fixed2(Fin(Abs(Hundredths(x))))

\* Number.parseFloat of a string toFixed(2) has printed
ParseFloatQ(s) ==
  LET neg == s # <<>> /\ Head(s) = "-"
      p == ParseFloatStr(IF neg THEN Tail(s) ELSE s)
  IN IF p.k = "fin" THEN Q((IF neg THEN -1 ELSE 1) * p.v, 100, 0) ELSE QNaN

\* a whole number of at least 2^20 in magnitude
IsLargeWhole(x) ==
  /\ x.k = "fin"
  /\ x.d = 1
  /\ x.e >= 0
  /\ x.e >= 20 \/ Abs(x.n) * 2^x.e >= 2^20

\* Number.parseFloat(size.toFixed(2)).  Of a whole number toFixed(2) prints the
\* digits followed by ".00", which parseFloat reads as the number itself; the
\* digits of the large ones are not computed, those of every other number are.
ParseFixed2Q(size) ==
  IF IsLargeWhole(size) THEN size ELSE ParseFloatQ(ToFixed2(size))

\* const units: FileUnit[]
units == <<"bytes", "KB", "MB", "GB", "TB">>

\* unitSizes[unit]: 1, 1024, 1024 * 1024, ...
unitSizes(unit) ==
  CASE unit = "bytes" -> QInt(1)
    [] unit = "KB" -> QInt(1024)
    [] unit = "MB" -> Mul(QInt(1024), QInt(1024))
    [] unit = "GB" -> Mul(Mul(QInt(1024), QInt(1024)), QInt(1024))
    [] unit = "TB" -> Mul(Mul(Mul(QInt(1024), QInt(1024)), QInt(1024)), QInt(1024))

\* variant: the units are taken as powers of 1000
convertToBytesDecimal(size, unit) ==
  Mul(size, CASE unit = "bytes" -> QInt(1)
              [] unit = "KB" -> QInt(1000)
              [] unit = "MB" -> QInt(1000000)
              [] unit = "GB" -> QInt(1000000000)
              [] unit = "TB" -> Mul(QInt(1000000), QInt(1000000)))

convertToBytes(size, unit) == Mul(size, unitSizes(unit))

\* the while loop of convertFromBytes and its return
RECURSIVE ConvertLoop(_, _)
ConvertLoop(size, unitIndex) ==
  IF AtLeastPow2(size, 10) /\ unitIndex < Len(units) - 1
  THEN ConvertLoop(Div(size, QInt(1024)), unitIndex + 1)
  ELSE [size |-> ParseFixed2Q(size), unit |-> units[unitIndex + 1]]

convertFromBytes(bytes) == ConvertLoop(bytes, 0)

\* (size * 8) / (speed * 1024 * 1024)
calculateTime(size, speed) ==
  Div(Mul(size, QInt(8)), Mul(Mul(speed, QInt(1024)), QInt(1024)))

\* variant: the latency is added in milliseconds
calculateTimeWithLatencyMs(size, speed, networkLatency) ==
  Add(calculateTime(size, speed), networkLatency)

\* calculateTime(size, speed) + networkLatency / 1000
calculateTimeWithLatency(size, speed, networkLatency) ==
  Add(calculateTime(size, speed), Div(networkLatency, QInt(1000)))

CloudProviders == {"none", "google-drive", "aws-s3", "onedrive"}

cloudSpeedFactors(provider) ==
  CASE provider = "none" -> QInt(1)
    [] provider = "google-drive" -> Q(9, 10, 0)
    [] provider = "aws-s3" -> Q(11, 10, 0)
    [] provider = "onedrive" -> Q(95, 100, 0)

estimateCloudUploadTime(size, uploadSpeed, cloudProvider, networkLatency) ==
  calculateTimeWithLatency(size, Mul(uploadSpeed, cloudSpeedFactors(cloudProvider)),
                           networkLatency)

\* files.reduce((sum, file) => sum + convertToBytes(file.size, file.unit), 0)
RECURSIVE TotalSize(_)
TotalSize(files) ==
  IF files = <<>> THEN QInt(0)
  ELSE Add(TotalSize(SubSeq(files, 1, Len(files) - 1)),
           convertToBytes(files[Len(files)].size, files[Len(files)].unit))

\* if (compressionEnabled) totalSizeBytes *= 1 - compressionRate / 100
Compressed(totalSizeBytes, enabled, rate) ==
  IF enabled THEN Mul(totalSizeBytes, Add(QInt(1), Neg(Div(rate, QInt(100)))))
  ELSE totalSizeBytes

\* variant: the three modifiers are alternatives of one else-if chain
EffectiveSpeedElseIf(speed, vpn, connection, transfer) ==
  IF vpn THEN Mul(speed, Q(9, 10, 0))
  ELSE IF connection = "ethernet" THEN Mul(speed, Q(12, 10, 0))
  ELSE IF transfer = "p2p" THEN Mul(speed, Q(8, 10, 0))
  ELSE speed

\* the three if statements of handleEstimate on one of the two speeds
EffectiveSpeed(speed, vpn, connection, transfer) ==
  LET a == IF vpn THEN Mul(speed, Q(9, 10, 0)) ELSE speed
      b == IF connection = "ethernet" THEN Mul(a, Q(12, 10, 0)) ELSE a
  IN IF transfer = "p2p" THEN Mul(b, Q(8, 10, 0)) ELSE b

\* variant: the formula is given the byte total
FinalSizeInBytes(st) ==
  Compressed(TotalSize(st.files), st.compressionEnabled, st.compressionRate)

\* const finalSize of handleEstimate: the size convertFromBytes returns for the
\* (possibly compressed) byte total, without its unit
FinalSizeOf(st) ==
  convertFromBytes(Compressed(TotalSize(st.files), st.compressionEnabled,
                              st.compressionRate)).size

\* variant: the bandwidth the simulator shows, once it shows one, is taken for
\* the download speed
EffectiveDownloadSpeedMonitored(st) ==
  EffectiveSpeed(IF Sign(st.currentBandwidth) # 0 THEN st.currentBandwidth
                 ELSE st.downloadSpeed,
                 st.isVpnEnabled, st.connectionType, st.transferType)

\* let effectiveDownloadSpeed of handleEstimate
EffectiveDownloadSpeed(st) ==
  EffectiveSpeed(st.downloadSpeed, st.isVpnEnabled, st.connectionType, st.transferType)

\* variant: the factor of the cloud provider is applied to the upload speed as well
EffectiveUploadSpeedOfProvider(st) ==
  Mul(EffectiveSpeed(st.uploadSpeed, st.isVpnEnabled, st.connectionType, st.transferType),
      cloudSpeedFactors(st.cloudProvider))

\* let effectiveUploadSpeed of handleEstimate
EffectiveUploadSpeed(st) ==
  EffectiveSpeed(st.uploadSpeed, st.isVpnEnabled, st.connectionType, st.transferType)

\* variant: the cloud upload is estimated with the effective upload speed
CloudUploadSpeedEffective(st) ==
  EffectiveSpeed(st.uploadSpeed, st.isVpnEnabled, st.connectionType, st.transferType)

\* the upload speed estimateCloudUploadTime reads: the state value uploadSpeed
CloudUploadSpeed(st) == st.uploadSpeed

(***************************************************************************)
(* State.                                                                  *)
(***************************************************************************)
VARIABLES
  results,   \* useState<Result>
  loading,   \* useState<boolean>
  progress,  \* useState<number>
  history,   \* useState<HistoryEntry[]>
  started,   \* how many times fetchData has been called
  cyc,       \* the locals of each fetchData invocation
  ft,        \* the fetchTest runs of each invocation, by endpoint
  stream,    \* the chunks the download stream of each invocation still holds
  now,       \* Date.now()
  faults,    \* failing answers given so far
  odd,       \* unusual answers given so far
  est,       \* the useState values of FileTransferEstimator
  requests,  \* the estimation requests made so far, with the locals of each
  edits,     \* how many times an input of the estimator was changed
  toggled,   \* the speed modifiers in the order they were last changed
  conv,      \* a size, its unit, and what the unit conversions made of them
  isEstimatorOpen,  \* useState(false) of the page: the estimator view is mounted
  timers,    \* the intervals set and not cleared, each with the speeds its callback reads
  opens,     \* how many times the view has been mounted
  ticks      \* how many times an interval has fired

probeVars == <<results, loading, progress, history, started, cyc, ft, stream, now, faults, odd>>
estimatorVars == <<est, requests, edits, toggled, conv, isEstimatorOpen, timers, opens, ticks>>
vars == <<results, loading, progress, history, started, cyc, ft, stream, now, faults, odd,
          est, requests, edits, toggled, conv, isEstimatorOpen, timers, opens, ticks>>

Cycles == 1..MaxCycles

(***************************************************************************)
(* The locals of one fetchData invocation:                                 *)
(*   pc            the await it is suspended at: "ip", "ping", "dlFetch",  *)
(*                 "dlRead", "upload", "batch"; "idle" before the call,    *)
(*                 "done" after its return, "aborted" after a throw        *)
(*   renderedPing  results.ping of the render whose closure fetchData is   *)
(*   dl, up        what the download and the upload request were answered  *)
(*   dlReqs,upReqs how many download and upload requests it has issued     *)
(*   pingMs        the Date.now() - startTime it formatted, -1 before      *)
(*   upTime        uploadData.uploadTime of the answer to its upload       *)
(*   upElapsed     Date.now() - uploadStart when that answer arrived       *)
(*   hist          the position of its HistoryEntry, 0 when it has none    *)
(***************************************************************************)
InitCycle ==
  [pc |-> "idle", renderedPing |-> Undefined, startTime |-> 0, downloadStart |-> 0,
   uploadStart |-> 0, contentLength |-> 0, receivedLength |-> 0, chunks |-> <<>>,
   blobSize |-> 0, downloadSpeed |-> Fin(0), uploadSpeed |-> Fin(0),
   dl |-> "none", up |-> "none", dlReqs |-> 0, upReqs |-> 0, pingMs |-> -1,
   upTime |-> Undefined, upElapsed |-> 0, hist |-> 0, uploadBody |-> <<>>]

\* the useState initial values of FileTransferEstimator
InitEst ==
  [files |-> <<>>, downloadSpeed |-> QInt(1), uploadSpeed |-> QInt(2),
   compressionEnabled |-> FALSE, compressionRate |-> QInt(50),
   downloadTime |-> QInt(0), uploadTime |-> QInt(0), networkLatency |-> QInt(50),
   currentBandwidth |-> QInt(0), cloudProvider |-> "none", cloudUploadTime |-> QInt(0),
   isVpnEnabled |-> FALSE, connectionType |-> "wifi", transferType |-> "direct"]

\* no conversion has been asked for
NoConv == [size |-> QInt(0), unit |-> "bytes", done |-> FALSE,
           out |-> [size |-> QInt(0), unit |-> "bytes"]]

\* what an interval's callback has closed over: the speeds of the render in
\* which useCallback made it
Callback(st) == [downloadSpeed |-> st.downloadSpeed, uploadSpeed |-> st.uploadSpeed]

\* the effect: setInterval(simulateBandwidthMonitoring, 5000)
SetInterval(ts, st) == Append(ts, Callback(st))

\* variant: the effect returns no cleanup
ClearIntervalMissing(ts) == ts

\* the cleanup of the effect: clearInterval(intervalId) of the interval the
\* effect set, which is the one set last
ClearInterval(ts) == SubSeq(ts, 1, Len(ts) - 1)

\* FileTransferEstimator on its own, mounted: its first effect has run
InitEstimator ==
  /\ est = InitEst
  /\ requests = <<>>
  /\ edits = 0
  /\ toggled = <<>>
  /\ isEstimatorOpen = TRUE
  /\ timers = SetInterval(<<>>, InitEst)
  /\ opens = 1
  /\ ticks = 0

InitProbe ==
  /\ results = EmptyResults
  /\ loading = TRUE
  /\ progress = [num |-> 0, den |-> 1]
  /\ history = <<>>
  /\ started = 0
  /\ cyc = [c \in Cycles |-> InitCycle]
  /\ ft = [c \in Cycles |-> [e \in FetchEndpoints |-> InitRun]]
  /\ stream = [c \in Cycles |-> <<>>]
  /\ now = 0
  /\ faults = 0
  /\ odd = 0

\* the page as it renders first: the estimator view is closed, useState(false)
InitClosed ==
  /\ est = InitEst
  /\ requests = <<>>
  /\ edits = 0
  /\ toggled = <<>>
  /\ isEstimatorOpen = FALSE
  /\ timers = <<>>
  /\ opens = 0
  /\ ticks = 0

Init == InitProbe /\ InitClosed /\ conv = NoConv

EstimatorInit == InitProbe /\ InitEstimator /\ conv = NoConv

\* f failing answers, o unusual answers and t milliseconds are within what a
\* behaviour with n calls of fetchData may see
Within(f, o, t, n) ==
  /\ o <= MaxOdd
  /\ t <= MaxTime
  /\ f + o + o + t <= MaxDeviation
  /\ n > 1 => f + o + t <= MaxOverlapDeviation

\* setResults({ip: "Fetching...", ...}) at the head of fetchData
ResetResults(res) == Placeholders

\* fetchData up to its first await: setLoading(true), the placeholders, and the
\* first fetch of fetchTest("ip", "ip")
Begin(c) ==
  /\ started' = c
  /\ loading' = TRUE
  /\ results' = ResetResults(results)
  /\ cyc' = [cyc EXCEPT ![c].pc = "ip", ![c].renderedPing = results["ping"]]
  /\ ft' = [ft EXCEPT ![c][IpProbe.endpoint] = CallFetchTest(@)]
  /\ UNCHANGED <<progress, history, stream, now, faults, odd>>
  /\ UNCHANGED estimatorVars

\* useEffect(() => { fetchData(); }, [])
Mount == started = 0 /\ Begin(1)

\* variant: a click is ignored while a cycle runs
CanStartWhenIdle == \A c \in Cycles : cyc[c].pc \in {"idle", "done", "aborted"}

\* what onClick={fetchData} asks of the state before it calls fetchData: nothing
CanStart == TRUE

\* a click on Refresh, which the page shows once it is mounted
Refresh ==
  /\ started >= 1
  /\ CanStart
  /\ started < MaxCycles
  /\ Within(faults, odd, now, started + 1)
  /\ Begin(started + 1)

\* variant: fetchTest is called without await
SettledEarly(run) == TRUE

\* await fetchTest(...): fetchData resumes when the run has returned
Settled(run) == run.st = "done"

\* variant: Promise.race in the place of Promise.all
AnySettled(runs) == \E e \in TrailingEndpoints : runs[e].st = "done"

\* await Promise.all([...]): fetchData resumes when every run has returned
AllSettled(runs) == \A e \in TrailingEndpoints : Settled(runs[e])

\* variant: the value fetchTest stored for ping is kept
PingOverrideKeep(res, ms) == res

\* setResults((prev) => ({ ...prev, ping: `${Date.now() - startTime}ms` }))
PingOverride(res, ms) == [res EXCEPT !["ping"] = PingString(ms)]

\* the answer resp is charged: as a failing one, as an unusual one when it is
\* another than the nominal one, or not at all
Charge(resp, nominal, failing) ==
  LET f == IF failing THEN 1 ELSE 0
      o == IF resp # nominal /\ ~failing THEN 1 ELSE 0
  IN /\ Within(faults + f, odd + o, now, started)
     /\ faults' = faults + f
     /\ odd' = odd + o

\* the clock advances by a millisecond
Tick ==
  /\ Within(faults, odd, now + 1, started)
  /\ now' = now + 1
  /\ UNCHANGED <<results, loading, progress, history, started, cyc, ft, stream, faults, odd>>
  /\ UNCHANGED estimatorVars

\* An answer to the pending fetch of fetchTest("ip", "ip").  When the run
\* returns, fetchData takes startTime and fetchTest("ping", "ping") issues its
\* first fetch.
IpAnswer(c) ==
  /\ cyc[c].pc = "ip"
  /\ \E resp \in FetchResponses :
       LET e == IpProbe.endpoint
           run == AfterAttempt(ft[c][e], resp)
       IN /\ Charge(resp, NominalFetch, ~FetchSucceeds(resp))
          /\ results' = WriteKey(results, IpProbe.key, AttemptWrite(ft[c][e].i, resp))
          /\ IF Settled(run)
             THEN /\ cyc' = [cyc EXCEPT ![c].pc = "ping", ![c].startTime = now]
                  /\ ft' = [ft EXCEPT ![c][e] = run,
                                      ![c][PingProbe.endpoint] = CallFetchTest(@)]
             ELSE /\ cyc' = cyc
                  /\ ft' = [ft EXCEPT ![c][e] = run]
  /\ UNCHANGED <<loading, progress, history, started, stream, now>>
  /\ UNCHANGED estimatorVars

\* An answer to the pending fetch of fetchTest("ping", "ping").  When the run
\* returns, fetchData overwrites results.ping with the elapsed time, takes
\* downloadStart and issues the download request.
PingAnswer(c) ==
  /\ cyc[c].pc = "ping"
  /\ \E resp \in FetchResponses :
       LET e == PingProbe.endpoint
           run == AfterAttempt(ft[c][e], resp)
           written == WriteKey(results, PingProbe.key, AttemptWrite(ft[c][e].i, resp))
       IN /\ Charge(resp, NominalFetch, ~FetchSucceeds(resp))
          /\ ft' = [ft EXCEPT ![c][e] = run]
          /\ IF Settled(run)
             THEN /\ results' = PingOverride(written, now - cyc[c].startTime)
                  /\ cyc' = [cyc EXCEPT ![c].pc = "dlFetch",
                                        ![c].pingMs = now - cyc[c].startTime,
                                        ![c].downloadStart = now,
                                        ![c].dlReqs = @ + 1]
             ELSE /\ results' = written
                  /\ cyc' = cyc
  /\ UNCHANGED <<loading, progress, history, started, stream, now>>
  /\ UNCHANGED estimatorVars

\* The answer to fetch(API_URL + "download").  A rejected fetch and a response
\* without body are thrown out of fetchData; otherwise the first read is issued.
DownloadAnswer(c) ==
  /\ cyc[c].pc = "dlFetch"
  /\ \E resp \in DownloadResponses :
       /\ Charge(resp, NominalDownload, resp.net \/ ~resp.hasBody)
       /\ IF resp.net \/ ~resp.hasBody
          THEN /\ cyc' = [cyc EXCEPT ![c].pc = "aborted",
                                     ![c].dl = IF resp.net THEN "net" ELSE "nobody"]
               /\ stream' = stream
          ELSE /\ cyc' = [cyc EXCEPT ![c].pc = "dlRead",
                                     ![c].contentLength = resp.cl,
                                     ![c].receivedLength = 0,
                                     ![c].chunks = <<>>,
                                     ![c].dl = IF Ok(resp) THEN "ok" ELSE "http"]
               /\ stream' = [stream EXCEPT ![c] = resp.body]
  /\ UNCHANGED <<results, loading, progress, history, started, ft, now>>
  /\ UNCHANGED estimatorVars

\* reader.read() resolves with a chunk
ReadChunk(c) ==
  /\ cyc[c].pc = "dlRead"
  /\ stream[c] # <<>>
  /\ LET value == Head(stream[c])
         received == cyc[c].receivedLength + value
     IN /\ cyc' = [cyc EXCEPT ![c].chunks = Append(@, value),
                              ![c].receivedLength = received]
        /\ progress' = Progress(received, cyc[c].contentLength)
  /\ stream' = [stream EXCEPT ![c] = Tail(@)]
  /\ UNCHANGED <<results, loading, history, started, ft, now, faults, odd>>
  /\ UNCHANGED estimatorVars

\* reader.read() rejects: the stream broke, the error is thrown out of fetchData
ReadError(c) ==
  /\ cyc[c].pc = "dlRead"
  /\ Within(faults + 1, odd, now, started)
  /\ faults' = faults + 1
  /\ cyc' = [cyc EXCEPT ![c].pc = "aborted", ![c].dl = "broken"]
  /\ UNCHANGED <<results, loading, progress, history, started, ft, stream, now, odd>>
  /\ UNCHANGED estimatorVars

\* variant: the file is made of the value read last
FormDataFileOfLast(chunks) ==
  IF chunks = <<>> THEN <<>> ELSE <<chunks[Len(chunks)]>>

\* new File([blob], ...) with blob = new Blob(chunks): the chunks, in their order
FormDataFile(chunks) == chunks

\* reader.read() resolves with done: the blob, the download speed, and the
\* upload request with the file as its body
ReadDone(c) ==
  /\ cyc[c].pc = "dlRead"
  /\ stream[c] = <<>>
  /\ LET size == Sum(cyc[c].chunks)
         speed == Speed(size, now - cyc[c].downloadStart)
     IN /\ results' = [results EXCEPT !["download"] = DownloadString(speed)]
        /\ cyc' = [cyc EXCEPT ![c].pc = "upload",
                              ![c].blobSize = size,
                              ![c].downloadSpeed = speed,
                              ![c].uploadSpeed = Fin(0),
                              ![c].uploadStart = now,
                              ![c].uploadBody = FormDataFile(cyc[c].chunks),
                              ![c].upReqs = @ + 1]
  /\ UNCHANGED <<loading, progress, history, started, ft, stream, now, faults, odd>>
  /\ UNCHANGED estimatorVars

\* uploadData.uploadTime || Date.now() - uploadStart
UploadTime(resp, elapsed) ==
  IF Truthy(resp.uploadTime) THEN resp.uploadTime.n ELSE elapsed

\* variant: the throughput is computed before response.ok is looked at
UploadSpeedAfterUnchecked(resp, prev, speed) == IF resp.net THEN prev ELSE speed

\* uploadSpeed after the try/catch around the upload: assigned in the try block
\* once the response is OK, left as it was (let uploadSpeed = 0) by a rejected
\* fetch or a non-OK status
UploadSpeedAfter(resp, prev, speed) == IF ~resp.net /\ Ok(resp) THEN speed ELSE prev

\* The answer to the upload request, then the first fetch of each of the six
\* fetchTest calls handed to Promise.all.
UploadAnswer(c) ==
  /\ cyc[c].pc = "upload"
  /\ \E resp \in UploadResponses :
       LET good == ~resp.net /\ Ok(resp)
           speed == Speed(cyc[c].blobSize, UploadTime(resp, now - cyc[c].uploadStart))
       IN /\ Charge(resp, NominalUpload, ~(~resp.net /\ Ok(resp)))
          /\ results' = [results EXCEPT !["upload"] =
                           IF good THEN UploadString(speed) ELSE UploadFailedString(resp)]
          /\ cyc' = [cyc EXCEPT ![c].pc = "batch",
                                ![c].uploadSpeed = UploadSpeedAfter(resp, @, speed),
                                ![c].up = IF good THEN "ok" ELSE "failed",
                                ![c].upTime = resp.uploadTime,
                                ![c].upElapsed = now - cyc[c].uploadStart]
  /\ ft' = [ft EXCEPT ![c] = [e \in FetchEndpoints |->
                                 IF e \in TrailingEndpoints THEN CallFetchTest(@[e])
                                 ELSE @[e]]]
  /\ UNCHANGED <<loading, progress, history, started, stream, now>>
  /\ UNCHANGED estimatorVars

\* the entry setHistory appends; results is the one of fetchData's closure
Entry(c, t) ==
  [timestamp |-> t,
   ping |-> ParseFloat(cyc[c].renderedPing),
   download |-> ParseFixed2(cyc[c].downloadSpeed),
   upload |-> ParseFixed2(cyc[c].uploadSpeed)]

\* variant: setHistory([...history, entry]) with the history of the closure of
\* the first render, which is empty
AppendEntryToRendered(prev, entry) == <<entry>>

\* setHistory((prev) => [...prev, entry])
AppendEntry(prev, entry) == Append(prev, entry)

\* An answer to the pending fetch of one of the six concurrent fetchTest runs.
\* When the last of them returns, fetchData appends the history entry and
\* clears loading.
TrailingAnswer(c, e) ==
  /\ cyc[c].pc = "batch"
  /\ ft[c][e].st = "wait"
  /\ \E resp \in FetchResponses :
       LET run == AfterAttempt(ft[c][e], resp)
           runs == [ft[c] EXCEPT ![e] = run]
       IN /\ Charge(resp, NominalFetch, ~FetchSucceeds(resp))
          /\ results' = WriteKey(results, KeyOf(e), AttemptWrite(ft[c][e].i, resp))
          /\ ft' = [ft EXCEPT ![c] = runs]
          /\ IF AllSettled(runs)
             THEN /\ history' = AppendEntry(history, Entry(c, now))
                  /\ loading' = FALSE
                  /\ cyc' = [cyc EXCEPT ![c].pc = "done", ![c].hist = Len(history) + 1]
             ELSE UNCHANGED <<history, loading, cyc>>
  /\ UNCHANGED <<progress, started, stream, now>>
  /\ UNCHANGED estimatorVars

Next ==
  \/ Mount
  \/ Refresh
  \/ Tick
  \/ \E c \in Cycles : IpAnswer(c)
  \/ \E c \in Cycles : PingAnswer(c)
  \/ \E c \in Cycles : DownloadAnswer(c)
  \/ \E c \in Cycles : ReadChunk(c)
  \/ \E c \in Cycles : ReadError(c)
  \/ \E c \in Cycles : ReadDone(c)
  \/ \E c \in Cycles : UploadAnswer(c)
  \/ \E c \in Cycles, e \in TrailingEndpoints : TrailingAnswer(c, e)

Spec == Init /\ [][Next]_vars


(***************************************************************************)
(* The events of FileTransferEstimator.  What the user can enter:          *)
(***************************************************************************)
\* a FileData of the size the browser reports, which is in bytes
FileData(bytes) == [size |-> QInt(bytes), unit |-> "bytes"]

\* the selections a file dialog or a drop can deliver
SelectableFiles ==
  { <<>>,
    <<FileData(2048)>>,
    <<FileData(1000), FileData(500)>>,
    <<FileData(10240)>>,
    <<FileData(10485760)>>,
    <<[size |-> Mul(QInt(10), unitSizes("GB")), unit |-> "bytes"]>> }

\* Number(e.target.value) of the two speed fields, of the latency field and of
\* the compression rate field, none of which has a min or a max
SpeedInputs == {QInt(0), QInt(1), QInt(10)}
LatencyInputs == {QInt(-50), QInt(0), QInt(50)}
RateInputs == {QInt(0), QInt(50), QInt(60), QInt(100), QInt(150)}

\* the modifier m becomes the one changed last
Moved(m) == SelectSeq(toggled, LAMBDA t : t # m) \o <<m>>

\* a setter of an input is called with a value that changes the state
\* and the view renders again: when simulateBandwidthMonitoring is another
\* function, because one of its two dependencies changed, the effect is cleaned
\* up and runs again
ChangeInput(new) ==
  /\ isEstimatorOpen
  /\ edits < MaxEdits
  /\ new # est
  /\ est' = new
  /\ edits' = edits + 1
  /\ timers' = IF Callback(new) # Callback(est)
                 THEN SetInterval(ClearInterval(timers), new)
                 ELSE timers
  /\ UNCHANGED <<requests, conv, isEstimatorOpen, opens, ticks>>
  /\ UNCHANGED probeVars

\* variant: selecting files estimates the download time anew
handleFileChangeAndEstimate ==
  /\ \E fileData \in SelectableFiles :
       LET new == [est EXCEPT !.files = fileData]
       IN ChangeInput([new EXCEPT !.downloadTime =
                         calculateTimeWithLatency(FinalSizeOf(new),
                                                  EffectiveDownloadSpeed(new),
                                                  new.networkLatency)])
  /\ UNCHANGED toggled

\* setFiles(fileData) of handleFileChange
handleFileChange ==
  /\ \E fileData \in SelectableFiles : ChangeInput([est EXCEPT !.files = fileData])
  /\ UNCHANGED toggled

\* setFiles(fileData) of handleDrop
handleDrop ==
  /\ \E fileData \in SelectableFiles : ChangeInput([est EXCEPT !.files = fileData])
  /\ UNCHANGED toggled

setDownloadSpeed ==
  /\ \E v \in SpeedInputs : ChangeInput([est EXCEPT !.downloadSpeed = v])
  /\ UNCHANGED toggled

setUploadSpeed ==
  /\ \E v \in SpeedInputs : ChangeInput([est EXCEPT !.uploadSpeed = v])
  /\ UNCHANGED toggled

setNetworkLatency ==
  /\ \E v \in LatencyInputs : ChangeInput([est EXCEPT !.networkLatency = v])
  /\ UNCHANGED toggled

\* e.target.checked is the opposite of what the box shows
setIsVpnEnabled ==
  /\ ChangeInput([est EXCEPT !.isVpnEnabled = ~@])
  /\ toggled' = Moved("vpn")

setCompressionEnabled ==
  /\ ChangeInput([est EXCEPT !.compressionEnabled = ~@])
  /\ UNCHANGED toggled

\* the field is rendered under {compressionEnabled && ...}
setCompressionRate ==
  /\ est.compressionEnabled
  /\ \E v \in RateInputs : ChangeInput([est EXCEPT !.compressionRate = v])
  /\ UNCHANGED toggled

setConnectionType ==
  /\ \E t \in {"wifi", "ethernet"} : ChangeInput([est EXCEPT !.connectionType = t])
  /\ toggled' = Moved("connection")

setTransferType ==
  /\ \E t \in {"direct", "p2p"} : ChangeInput([est EXCEPT !.transferType = t])
  /\ toggled' = Moved("transfer")

setCloudProvider ==
  /\ \E provider \in CloudProviders : ChangeInput([est EXCEPT !.cloudProvider = provider])
  /\ UNCHANGED toggled

\* A click on the estimate button.  The request is recorded with the state it
\* read, the locals it computed and the three times it set.
handleEstimate ==
  /\ isEstimatorOpen
  /\ Len(requests) < MaxRequests
  /\ LET finalSize == FinalSizeOf(est)
         effectiveDownloadSpeed == EffectiveDownloadSpeed(est)
         effectiveUploadSpeed == EffectiveUploadSpeed(est)
         downloadTimeValue ==
           calculateTimeWithLatency(finalSize, effectiveDownloadSpeed, est.networkLatency)
         uploadTimeValue ==
           calculateTimeWithLatency(finalSize, effectiveUploadSpeed, est.networkLatency)
         cloudUploadTimeValue ==
           estimateCloudUploadTime(finalSize, CloudUploadSpeed(est), est.cloudProvider,
                                   est.networkLatency)
     IN /\ est' = [est EXCEPT !.downloadTime = downloadTimeValue,
                              !.uploadTime = uploadTimeValue,
                              !.cloudUploadTime = cloudUploadTimeValue]
        /\ requests' = Append(requests,
                              [at |-> est, toggled |-> toggled, finalSize |-> finalSize,
                               effectiveDownloadSpeed |-> effectiveDownloadSpeed,
                               effectiveUploadSpeed |-> effectiveUploadSpeed,
                               downloadTime |-> downloadTimeValue,
                               uploadTime |-> uploadTimeValue,
                               cloudUploadTime |-> cloudUploadTimeValue])
  /\ UNCHANGED <<edits, toggled, conv, isEstimatorOpen, timers, opens, ticks>>
  /\ UNCHANGED probeVars

EstimatorNext ==
  \/ handleFileChange
  \/ handleDrop
  \/ setDownloadSpeed
  \/ setUploadSpeed
  \/ setNetworkLatency
  \/ setIsVpnEnabled
  \/ setCompressionEnabled
  \/ setCompressionRate
  \/ setConnectionType
  \/ setTransferType
  \/ setCloudProvider
  \/ handleEstimate

EstimatorSpec == EstimatorInit /\ [][EstimatorNext]_vars

(***************************************************************************)
(* The estimator view inside the page: it is mounted while isEstimatorOpen *)
(* holds, and while it is mounted its interval fires.                      *)
(***************************************************************************)
\* Math.random() * 0.2 - 0.1
Fluctuations == {Q(-1, 10, 0), QInt(0), Q(1, 20, 0)}

\* setIsEstimatorOpen(true): the view is mounted with its initial state and
\* its effect runs
openEstimator ==
  /\ ~isEstimatorOpen
  /\ opens < MaxOpens
  /\ isEstimatorOpen' = TRUE
  /\ opens' = opens + 1
  /\ est' = InitEst
  /\ toggled' = <<>>
  /\ timers' = SetInterval(timers, InitEst)
  /\ UNCHANGED <<requests, edits, conv, ticks>>
  /\ UNCHANGED probeVars

\* setIsEstimatorOpen(false): the view is unmounted, its effect is cleaned up
\* and its state is dropped
closeEstimator ==
  /\ isEstimatorOpen
  /\ isEstimatorOpen' = FALSE
  /\ timers' = ClearInterval(timers)
  /\ est' = InitEst
  /\ toggled' = <<>>
  /\ UNCHANGED <<requests, edits, conv, opens, ticks>>
  /\ UNCHANGED probeVars

\* An interval fires and calls the function it was set with; setting the
\* state of a view that is not mounted does nothing.
simulateBandwidthMonitoring ==
  /\ ticks < MaxTicks
  /\ \E i \in DOMAIN timers, fluctuation \in Fluctuations :
       LET baseBandwidth == Div(Add(timers[i].downloadSpeed, timers[i].uploadSpeed),
                                QInt(2))
       IN est' = IF isEstimatorOpen
                   THEN [est EXCEPT !.currentBandwidth =
                           Mul(baseBandwidth, Add(QInt(1), fluctuation))]
                   ELSE est
  /\ ticks' = ticks + 1
  /\ UNCHANGED <<requests, edits, toggled, conv, isEstimatorOpen, timers, opens>>
  /\ UNCHANGED probeVars

\* the view is opened and closed, its interval fires, files are selected, the
\* two speeds the interval's callback reads are changed, estimates are asked for
MonitorNext ==
  \/ openEstimator
  \/ closeEstimator
  \/ simulateBandwidthMonitoring
  \/ edits < MaxViewEdits /\ handleFileChange
  \/ edits < MaxViewEdits /\ setDownloadSpeed
  \/ edits < MaxViewEdits /\ setUploadSpeed
  \/ handleEstimate

MonitorSpec == Init /\ [][MonitorNext]_vars

(***************************************************************************)
(* The two unit conversions on their own: a size and a unit are given,     *)
(* converted to bytes and back.                                            *)
(***************************************************************************)
ConvSizes ==
  { Q(1, 100, 0), Q(1, 4, 0), Q(1, 2, 0), QInt(1), Q(3, 2, 0), QInt(10), Q(1001, 100, 0),
    QInt(1000), QInt(1023), Q(102399, 100, 0), QInt(1024), QInt(1500), QInt(2048),
    QInt(1048575) }

ConvInit ==
  /\ InitProbe
  /\ InitEstimator
  /\ \E x \in ConvSizes, u \in {units[j] : j \in DOMAIN units} :
       conv = [NoConv EXCEPT !.size = x, !.unit = u]

\* convertFromBytes(convertToBytes(size, unit))
RoundTrip ==
  /\ ~conv.done
  /\ conv' = [conv EXCEPT !.done = TRUE,
                          !.out = convertFromBytes(convertToBytes(conv.size, conv.unit))]
  /\ UNCHANGED <<est, requests, edits, toggled, isEstimatorOpen, timers, opens, ticks>>
  /\ UNCHANGED probeVars

ConvNext == RoundTrip

ConvSpec == ConvInit /\ [][ConvNext]_vars

(***************************************************************************)
(* Vocabulary of the properties.                                           *)
(***************************************************************************)
\* fetchData has been called for c and has neither returned nor thrown
Running(c) == cyc[c].pc \notin {"idle", "done", "aborted"}

\* c has stopped executing: it returned or an exception left it
Stopped(c) == cyc[c].pc \in {"done", "aborted"}

\* c has appended its HistoryEntry
Completed(c) == cyc[c].pc = "done" /\ cyc[c].hist > 0

\* a request or a read of c awaits its answer
Pending(c) ==
  \/ \E e \in FetchEndpoints : ft[c][e].st = "wait"
  \/ cyc[c].pc \in {"dlFetch", "dlRead", "upload"}

\* every attempt of the run has failed and it has stopped retrying
Exhausted(run) ==
  /\ run.st = "done"
  /\ run.log # <<>>
  /\ \A j \in DOMAIN run.log : ~FetchSucceeds(run.log[j])

\* the probes of c that are in flight, each named by its endpoint
InFlight(c) ==
  {e \in FetchEndpoints : ft[c][e].st = "wait"}
  \cup (IF cyc[c].pc \in {"dlFetch", "dlRead"} THEN {"download"} ELSE {})
  \cup (IF cyc[c].pc = "upload" THEN {"upload"} ELSE {})

\* the result key a probe writes
Target(e) == IF e \in FetchEndpoints THEN KeyOf(e) ELSE e

\* v reads as a failure to the user
FailureString(v) ==
  /\ v.ty = "string"
  /\ v.s # <<>>
  /\ Head(v.s) \in {"Request failed: ", "Upload failed: ", "Download failed: ", "Error: "}

(***************************************************************************)
(* C1.  Every started cycle completes, whichever probes fail: once all the *)
(* requests a cycle has issued have settled and none is pending, the cycle *)
(* has appended its HistoryEntry.                                          *)
(***************************************************************************)
C1_CycleCompletes ==
  \A c \in Cycles : (cyc[c].pc # "idle" /\ ~Pending(c)) => Completed(c)

(***************************************************************************)
(* C2.  A fetchTest run whose every attempt failed has issued exactly 3    *)
(* requests and has stored "Request failed: " followed by the message of   *)
(* the error of its last attempt.                                          *)
(***************************************************************************)
C2_RetryExhaustion ==
  \A c \in Cycles, e \in FetchEndpoints :
    Exhausted(ft[c][e]) =>
      /\ ft[c][e].reqs = 3
      /\ Len(ft[c][e].log) = 3
      /\ ft[c][e].wrote = Str(<<"Request failed: ">> \o ErrMessage(ft[c][e].log[3]))

\* a run is exhausted whose first and last attempt failed differently
C2_Witness ==
  \E c \in Cycles, e \in FetchEndpoints :
    /\ Exhausted(ft[c][e])
    /\ ErrMessage(ft[c][e].log[1]) # ErrMessage(ft[c][e].log[Len(ft[c][e].log)])

(***************************************************************************)
(* C3.  No fetchTest run issues more than 3 requests, and a run whose k-th *)
(* attempt succeeded has issued exactly k requests, has stored that        *)
(* attempt's result and has returned.                                      *)
(***************************************************************************)
C3_StopOnSuccess ==
  \A c \in Cycles, e \in FetchEndpoints :
    LET run == ft[c][e]
    IN /\ run.reqs <= 3
       /\ \A k \in DOMAIN run.log :
            FetchSucceeds(run.log[k]) =>
              /\ run.reqs = k
              /\ Len(run.log) = k
              /\ run.st = "done"
              /\ run.wrote = StoredOnSuccess(run.log[k])

\* a run succeeded on its second attempt
C3_Witness ==
  \E c \in Cycles, e \in FetchEndpoints :
    /\ Len(ft[c][e].log) = 2
    /\ ~FetchSucceeds(ft[c][e].log[1])
    /\ FetchSucceeds(ft[c][e].log[2])
    /\ ft[c][e].reqs = 2

(***************************************************************************)
(* C4.  The HistoryEntry a cycle appends has as its ping the round-trip    *)
(* time that the ping step of that same cycle measured.                    *)
(***************************************************************************)
C4_HistoryPing ==
  \A c \in Cycles :
    cyc[c].hist > 0 => history[cyc[c].hist].ping = Fin(cyc[c].pingMs * 100)

(***************************************************************************)
(* C5.  The ping step leaves under the key ping the milliseconds elapsed   *)
(* since startTime followed by "ms", whatever fetchTest stored there.      *)
(***************************************************************************)
C5_PingOverride ==
  [][\A c \in Cycles :
       (cyc[c].pc = "ping" /\ cyc'[c].pc = "dlFetch") =>
         results'["ping"] = Str(Digits(now' - cyc[c].startTime) \o <<"ms">>)]_vars

\* the ping step has run on a body {ping: 999} with a round trip of 1 ms
C5_Witness ==
  \E c \in Cycles :
    /\ cyc[c].pc = "dlFetch"
    /\ ft[c]["ping"].wrote = NumV(999)
    /\ results["ping"] = Str(<<"1", "ms">>)

(***************************************************************************)
(* C6.  Once a cycle has stopped executing, the key of each of its probes  *)
(* that failed holds a failure string.                                     *)
(***************************************************************************)
C6_FailureVisible ==
  \A c \in Cycles :
    Stopped(c) =>
      /\ \A e \in FetchEndpoints :
           Exhausted(ft[c][e]) => FailureString(results[KeyOf(e)])
      /\ cyc[c].dl \in {"net", "nobody"} => FailureString(results["download"])
      /\ cyc[c].up = "failed" => FailureString(results["upload"])

(***************************************************************************)
(* C7.  Within a cycle a ping request is issued only after the ip run has  *)
(* returned, the download request only after the ping run has returned,    *)
(* the upload request only after the download stream is consumed, and a    *)
(* request of the six trailing probes only after the upload has settled.   *)
(***************************************************************************)
C7_Sequential ==
  \A c \in Cycles :
    /\ ft[c]["ping"].reqs > 0 => ft[c]["ip"].st = "done"
    /\ cyc[c].dlReqs > 0 => ft[c]["ping"].st = "done"
    /\ cyc[c].upReqs > 0 =>
         /\ cyc[c].dl \in {"ok", "http"}
         /\ stream[c] = <<>>
         /\ cyc[c].blobSize = cyc[c].receivedLength
    /\ \A e \in TrailingEndpoints :
         ft[c][e].reqs > 0 => (cyc[c].up # "none" /\ cyc[c].pc \in {"batch", "done"})

\* a cycle reached the trailing probes after its ip probe had to retry
C7_Witness ==
  \E c \in Cycles :
    /\ ft[c]["ip"].reqs > 1
    /\ \E e \in TrailingEndpoints : ft[c][e].reqs > 0

(***************************************************************************)
(* C8.  While fetchData waits for the six trailing probes each of them has *)
(* its request in flight or has returned; the HistoryEntry is appended     *)
(* only when all six have returned, and it is appended then, whatever the  *)
(* outcome of each.                                                        *)
(***************************************************************************)
C8_TrailingJoin ==
  \A c \in Cycles :
    /\ cyc[c].pc = "batch" =>
         \A e \in TrailingEndpoints : ft[c][e].st \in {"wait", "done"}
    /\ cyc[c].hist > 0 => \A e \in TrailingEndpoints : ft[c][e].st = "done"
    /\ (\A e \in TrailingEndpoints : ft[c][e].st = "done") => cyc[c].hist > 0

\* a cycle appended its entry with one trailing probe exhausted and another
\* successful
C8_Witness ==
  \E c \in Cycles :
    /\ cyc[c].hist > 0
    /\ \E e \in TrailingEndpoints : Exhausted(ft[c][e])
    /\ \E e \in TrailingEndpoints : ~Exhausted(ft[c][e])

(***************************************************************************)
(* C9.  No two probes in flight have the same result key as their target,  *)
(* across all running cycles.                                              *)
(***************************************************************************)
C9_OneWriterPerKey ==
  \A c1, c2 \in Cycles :
    \A e1 \in InFlight(c1), e2 \in InFlight(c2) :
      Target(e1) = Target(e2) => (c1 = c2 /\ e1 = e2)

(***************************************************************************)
(* C9, amended.  No two probes of the same cycle that are in flight have   *)
(* the same result key as their target.                                    *)
(***************************************************************************)
C9_OneWriterPerKeyInCycle ==
  \A c \in Cycles :
    \A e1, e2 \in InFlight(c) : Target(e1) = Target(e2) => e1 = e2

\* the six trailing probes of a cycle are in flight together
C9_Witness ==
  \E c \in Cycles : TrailingEndpoints \subseteq InFlight(c)

(***************************************************************************)
(* C10.  Refresh is not rejected while a cycle runs: fetchData can be      *)
(* called again, the call resets all ten keys to their placeholders and    *)
(* issues its first request, and the cycles already running stay as they   *)
(* are, in flight.                                                         *)
(***************************************************************************)
C10_RefreshWhileRunning ==
  /\ [](((\E c \in Cycles : Running(c))
          /\ started < MaxCycles
          /\ Within(faults, odd, now, started + 1)) => ENABLED Refresh)
  /\ [][started' # started =>
          /\ \A k \in Keys : results'[k] = Placeholders[k]
          /\ ft'[started']["ip"].st = "wait"
          /\ cyc'[started'].pc = "ip"
          /\ \A c \in Cycles : Running(c) => (cyc'[c] = cyc[c] /\ ft'[c] = ft[c])]_vars

\* two cycles are in flight
C10_Witness ==
  \E c1, c2 \in Cycles : c1 # c2 /\ Running(c1) /\ Running(c2)

(***************************************************************************)
(* C11.  The history is append-only: a step changes it only when a cycle   *)
(* completes, and then it gets one more entry at its end, the one of that  *)
(* cycle, with every earlier entry unchanged and in its position; so the   *)
(* history holds as many entries as cycles have completed, overlapping or  *)
(* not, in the order of their completion.                                  *)
(***************************************************************************)
C11_HistoryAppendOnly ==
  /\ [](Len(history) = Cardinality({c \in Cycles : cyc[c].pc = "done"}))
  /\ [][history' # history =>
          /\ Len(history') = Len(history) + 1
          /\ \A j \in 1..Len(history) : history'[j] = history[j]
          /\ \E c \in Cycles :
               /\ cyc[c].pc = "batch"
               /\ cyc'[c].pc = "done"
               /\ \A d \in Cycles \ {c} : cyc'[d].pc = cyc[d].pc
               /\ history'[Len(history')].download = ParseFixed2(cyc[c].downloadSpeed)
               /\ history'[Len(history')].timestamp = now]_vars
  /\ [][\A c \in Cycles :
            (cyc[c].pc # "done" /\ cyc'[c].pc = "done") => Len(history') = Len(history) + 1]_vars

\* two overlapping cycles completed in the reverse order of their start, with
\* different entries
C11_Witness ==
  /\ Len(history) = 2
  /\ history[1] # history[2]
  /\ cyc[2].hist = 1
  /\ cyc[1].hist = 2

\* the answer a returned run got to its last request
LastAnswer(run) == run.log[Len(run.log)]

\* the JSON body of the answer has the key of the probe
BodyHasKey(resp) == resp.val # Undefined

(***************************************************************************)
(* C12.  A fetchTest run that returned on an OK response whose body has    *)
(* the key of the probe has stored the value the body has for that key,    *)
(* whatever that value is.                                                 *)
(***************************************************************************)
C12_StoresBodyValue ==
  \A c \in Cycles, e \in FetchEndpoints :
    LET run == ft[c][e]
    IN (run.st = "done" /\ run.log # <<>> /\ FetchSucceeds(LastAnswer(run))
          /\ BodyHasKey(LastAnswer(run)))
         => run.wrote = LastAnswer(run).val

(***************************************************************************)
(* C13.  When the upload request is rejected or answered with a non-OK     *)
(* status, that step leaves under the key upload a string that starts with *)
(* "Upload failed: ", and the HistoryEntry the cycle appends has upload 0  *)
(* and as its download the download speed the cycle measured.              *)
(***************************************************************************)
C13_UploadFailure ==
  /\ [][\A c \in Cycles :
          (cyc[c].pc = "upload" /\ cyc'[c].up = "failed") =>
            /\ results'["upload"].ty = "string"
            /\ Head(results'["upload"].s) = "Upload failed: "]_vars
  /\ [](\A c \in Cycles :
          (cyc[c].up = "failed" /\ cyc[c].hist > 0) =>
            /\ history[cyc[c].hist].upload = Fin(0)
            /\ history[cyc[c].hist].download = cyc[c].downloadSpeed)

\* a cycle whose upload got a non-OK status completed after it had measured a
\* finite, positive download speed
C13_Witness ==
  \E c \in Cycles :
    /\ cyc[c].up = "failed"
    /\ cyc[c].hist > 0
    /\ cyc[c].downloadSpeed.k = "fin"
    /\ cyc[c].downloadSpeed.v > 0
    /\ results["upload"] = Str(<<"Upload failed: ", "Upload failed: ", "Internal Server Error">>)

(***************************************************************************)
(* C14.  After a successful upload whose JSON body has an uploadTime       *)
(* field, the upload throughput is the one computed from that field; the   *)
(* elapsed time the client measured is used only when the body has none.   *)
(***************************************************************************)
C14_ServerUploadTime ==
  \A c \in Cycles :
    cyc[c].up = "ok" =>
      cyc[c].uploadSpeed =
        Speed(cyc[c].blobSize,
              IF cyc[c].upTime # Undefined THEN cyc[c].upTime.n ELSE cyc[c].upElapsed)

(***************************************************************************)
(* C15.  While the download is read from a response with a positive        *)
(* Content-Length, the progress set after each chunk is the bytes received *)
(* so far divided by Content-Length, times 100, and lies in [0,100].       *)
(***************************************************************************)
C15_ProgressRange ==
  [][\A c \in Cycles :
       (cyc[c].pc = "dlRead" /\ cyc[c].contentLength > 0
          /\ cyc'[c].receivedLength # cyc[c].receivedLength) =>
         /\ progress'.num * cyc[c].contentLength
              = cyc'[c].receivedLength * 100 * progress'.den
         /\ 0 <= progress'.num
         /\ progress'.num <= 100 * progress'.den]_vars

(***************************************************************************)
(* C16.  A failed attempt of fetchTest that is not the 3rd one writes      *)
(* nothing: the result key stays as it was and the next request is issued. *)
(* The 3rd failed attempt writes "Request failed: " with the message of    *)
(* its own error.  Hence a run that stored a failure has failed 3 times.   *)
(***************************************************************************)
C16_OnlyLastFailureStored ==
  /\ [][\A c \in Cycles, e \in FetchEndpoints :
          (Len(ft'[c][e].log) = Len(ft[c][e].log) + 1
             /\ ~FetchSucceeds(LastAnswer(ft'[c][e]))) =>
            IF Len(ft'[c][e].log) < 3
            THEN /\ ft'[c][e].wrote = Undefined
                 /\ results'[KeyOf(e)] = results[KeyOf(e)]
                 /\ ft'[c][e].st = "wait"
            ELSE /\ ft'[c][e].wrote
                      = Str(<<"Request failed: ">> \o ErrMessage(LastAnswer(ft'[c][e])))
                 /\ e # PingProbe.endpoint => results'[KeyOf(e)] = ft'[c][e].wrote]_vars
  /\ [](\A c \in Cycles, e \in FetchEndpoints :
          (ft[c][e].wrote.ty = "string" /\ ft[c][e].wrote.s # <<>>
             /\ Head(ft[c][e].wrote.s) = "Request failed: ")
            => (Len(ft[c][e].log) = 3 /\ Exhausted(ft[c][e])))

\* a run has failed twice, differently, and its key still holds the placeholder
C16_Witness ==
  \E c \in Cycles, e \in FetchEndpoints :
    /\ Len(ft[c][e].log) = 2
    /\ ~FetchSucceeds(ft[c][e].log[1])
    /\ ~FetchSucceeds(ft[c][e].log[2])
    /\ ft[c][e].log[1] # ft[c][e].log[2]
    /\ ft[c][e].st = "wait"
    /\ results[KeyOf(e)] = Placeholders[KeyOf(e)]

\* the inputs of the estimator: the file list and the configuration
InputFields ==
  {"files", "downloadSpeed", "uploadSpeed", "compressionEnabled", "compressionRate",
   "networkLatency", "cloudProvider", "isVpnEnabled", "connectionType", "transferType"}

\* two states of the estimator have the same inputs but for those named
SameInputsBut(a, b, fields) == \A f \in InputFields \ fields : a[f] = b[f]

\* the latency floor networkLatency / 1000
LatencyFloor(st) == Div(st.networkLatency, QInt(1000))

(***************************************************************************)
(* C17.  Of two estimation requests with compression enabled that differ   *)
(* only in the compression rate, both rates within [0,100] and the         *)
(* download speed positive, the one with the higher rate gets a            *)
(* downloadTime that is not greater; at rate 100 the downloadTime is       *)
(* networkLatency / 1000.                                                  *)
(***************************************************************************)
C17_CompressionMonotone ==
  \A i, j \in DOMAIN requests :
    LET a == requests[i].at
        b == requests[j].at
    IN (/\ SameInputsBut(a, b, {"compressionRate"})
        /\ a.compressionEnabled
        /\ Sign(a.downloadSpeed) > 0
        /\ Leq(QInt(0), a.compressionRate)
        /\ Leq(a.compressionRate, b.compressionRate)
        /\ Leq(b.compressionRate, QInt(100)))
       => /\ Leq(requests[j].downloadTime, requests[i].downloadTime)
          /\ b.compressionRate = QInt(100) => requests[j].downloadTime = LatencyFloor(b)

(***************************************************************************)
(* C18.  convertFromBytes(convertToBytes(x, u)) has the unit u or a        *)
(* coarser one, and its size is within 0.01 of x expressed in that unit.   *)
(***************************************************************************)
UnitIndex(u) == CHOOSE j \in DOMAIN units : units[j] = u

\* x of the unit u, expressed in the unit v
Expressed(x, u, v) == Div(Mul(x, unitSizes(u)), unitSizes(v))

\* |x - y| <= 0.01
Within001(x, y) ==
  /\ Leq(Add(x, Neg(y)), Q(1, 100, 0))
  /\ Leq(Add(y, Neg(x)), Q(1, 100, 0))

C18_RoundTrip ==
  conv.done =>
    /\ UnitIndex(conv.out.unit) >= UnitIndex(conv.unit)
    /\ Within001(conv.out.size, Expressed(conv.size, conv.unit, conv.out.unit))

(***************************************************************************)
(* C18, amended.  The size convertFromBytes(convertToBytes(x, u)) returns  *)
(* is within 0.01 of x expressed in the returned unit; that unit is u or a *)
(* coarser one when x >= 1, and u or a finer one when x < 1.               *)
(***************************************************************************)
C18_RoundTripFromOne ==
  conv.done =>
    /\ Within001(conv.out.size, Expressed(conv.size, conv.unit, conv.out.unit))
    /\ Leq(QInt(1), conv.size) => UnitIndex(conv.out.unit) >= UnitIndex(conv.unit)
    /\ ~Leq(QInt(1), conv.size) => UnitIndex(conv.out.unit) <= UnitIndex(conv.unit)

\* 1500 KB came back as 1.46 MB
C18_Witness ==
  /\ conv.done
  /\ conv.size = QInt(1500)
  /\ conv.unit = "KB"
  /\ conv.out = [size |-> Q(146, 100, 0), unit |-> "MB"]

(***************************************************************************)
(* C19.  An estimation request made with an empty file list sets           *)
(* downloadTime, uploadTime and cloudUploadTime to networkLatency / 1000,  *)
(* whatever the configuration.                                             *)
(***************************************************************************)
C19_ZeroFileEstimate ==
  \A i \in DOMAIN requests :
    requests[i].at.files = <<>> =>
      /\ requests[i].downloadTime = LatencyFloor(requests[i].at)
      /\ requests[i].uploadTime = LatencyFloor(requests[i].at)
      /\ requests[i].cloudUploadTime = LatencyFloor(requests[i].at)

(***************************************************************************)
(* C19, amended.  An estimation request made with an empty file list sets  *)
(* downloadTime to networkLatency / 1000 when the download speed is not 0, *)
(* and uploadTime and cloudUploadTime to networkLatency / 1000 when the    *)
(* upload speed is not 0, whatever the rest of the configuration; a time   *)
(* whose speed is 0 is NaN.                                                *)
(***************************************************************************)
C19_ZeroFileEstimateNonZeroSpeed ==
  \A i \in DOMAIN requests :
    LET r == requests[i]
    IN r.at.files = <<>> =>
         /\ r.downloadTime = IF Sign(r.at.downloadSpeed) # 0 THEN LatencyFloor(r.at) ELSE QNaN
         /\ r.uploadTime = IF Sign(r.at.uploadSpeed) # 0 THEN LatencyFloor(r.at) ELSE QNaN
         /\ r.cloudUploadTime
              = IF Sign(r.at.uploadSpeed) # 0 THEN LatencyFloor(r.at) ELSE QNaN

\* an estimate of no files with compression and VPN enabled gave three times
\* 0.05 s, after an estimate of some files had given other times
C19_Witness ==
  /\ Len(requests) = 2
  /\ requests[1].at.files # <<>>
  /\ requests[1].downloadTime # Q(1, 20, 0)
  /\ requests[2].at.files = <<>>
  /\ requests[2].at.compressionEnabled
  /\ requests[2].at.isVpnEnabled
  /\ est.downloadTime = Q(1, 20, 0)
  /\ est.uploadTime = Q(1, 20, 0)
  /\ est.cloudUploadTime = Q(1, 20, 0)

\* the product of the factors of the modifiers that are enabled
ModifierFactor(st) ==
  Mul(Mul(IF st.isVpnEnabled THEN Q(9, 10, 0) ELSE QInt(1),
          IF st.connectionType = "ethernet" THEN Q(12, 10, 0) ELSE QInt(1)),
      IF st.transferType = "p2p" THEN Q(8, 10, 0) ELSE QInt(1))

(***************************************************************************)
(* C20.  The effective download and upload speed of an estimation request  *)
(* are the base speed times the factors of the enabled modifiers (VPN 0.9, *)
(* ethernet 1.2, p2p 0.8), which is base * 0.864 with all three; they are  *)
(* the speeds the download and the upload time are computed with, and      *)
(* requests with the same configuration have the same effective speeds,    *)
(* in whichever order the modifiers were toggled.                          *)
(***************************************************************************)
C20_ModifierComposition ==
  /\ \A i \in DOMAIN requests :
       LET r == requests[i]
       IN /\ r.effectiveDownloadSpeed = Mul(r.at.downloadSpeed, ModifierFactor(r.at))
          /\ r.effectiveUploadSpeed = Mul(r.at.uploadSpeed, ModifierFactor(r.at))
          /\ (r.at.isVpnEnabled /\ r.at.connectionType = "ethernet"
                /\ r.at.transferType = "p2p")
               => r.effectiveDownloadSpeed = Mul(r.at.downloadSpeed, Q(864, 1000, 0))
          /\ r.downloadTime
               = Add(Div(Mul(r.finalSize, QInt(8)),
                         Mul(r.effectiveDownloadSpeed, QInt(1048576))),
                     LatencyFloor(r.at))
          /\ r.uploadTime
               = Add(Div(Mul(r.finalSize, QInt(8)),
                         Mul(r.effectiveUploadSpeed, QInt(1048576))),
                     LatencyFloor(r.at))
  /\ \A i, j \in DOMAIN requests :
       SameInputsBut(requests[i].at, requests[j].at, {}) =>
         /\ requests[i].effectiveDownloadSpeed = requests[j].effectiveDownloadSpeed
         /\ requests[i].effectiveUploadSpeed = requests[j].effectiveUploadSpeed

\* an estimate of a file was made with the three modifiers enabled in the
\* reverse of the order in which handleEstimate applies them
C20_Witness ==
  \E i \in DOMAIN requests :
    /\ requests[i].toggled = <<"transfer", "connection", "vpn">>
    /\ requests[i].at.files # <<>>
    /\ requests[i].effectiveDownloadSpeed = Q(864, 1000, 0)
    /\ requests[i].effectiveUploadSpeed = Q(1728, 1000, 0)

(***************************************************************************)
(* C21.  Two estimation requests that differ only in the cloud provider    *)
(* get the same downloadTime and the same uploadTime.                      *)
(***************************************************************************)
C21_ProviderOnlyCloudTime ==
  \A i, j \in DOMAIN requests :
    SameInputsBut(requests[i].at, requests[j].at, {"cloudProvider"}) =>
      /\ requests[i].downloadTime = requests[j].downloadTime
      /\ requests[i].uploadTime = requests[j].uploadTime

\* an estimate of some files was made with one provider and then with another,
\* and only the cloud upload time changed
C21_Witness ==
  /\ Len(requests) = 2
  /\ requests[1].at.files # <<>>
  /\ requests[1].at.cloudProvider # requests[2].at.cloudProvider
  /\ SameInputsBut(requests[1].at, requests[2].at, {"cloudProvider"})
  /\ requests[1].cloudUploadTime # requests[2].cloudUploadTime
  /\ requests[1].uploadTime = requests[2].uploadTime

\* the factor of a cloud provider
ProviderFactor(provider) ==
  IF provider = "google-drive" THEN Q(9, 10, 0)
  ELSE IF provider = "aws-s3" THEN Q(11, 10, 0)
  ELSE IF provider = "onedrive" THEN Q(95, 100, 0)
  ELSE QInt(1)

\* size * 8 / (speed * 1024 * 1024) + networkLatency / 1000
TimeFormula(size, speed, st) ==
  Add(Div(Mul(size, QInt(8)), Mul(speed, QInt(1048576))), LatencyFloor(st))

(***************************************************************************)
(* C22.  The cloudUploadTime of an estimation request is the time formula  *)
(* at the base upload speed times the factor of the provider (none 1,      *)
(* google-drive 0.9, aws-s3 1.1, onedrive 0.95); two requests that differ  *)
(* only in VPN, connection type or transfer type get the same              *)
(* cloudUploadTime.                                                        *)
(***************************************************************************)
C22_CloudTimeFromBaseSpeed ==
  /\ \A i \in DOMAIN requests :
       LET r == requests[i]
       IN r.cloudUploadTime
            = TimeFormula(r.finalSize,
                          Mul(r.at.uploadSpeed, ProviderFactor(r.at.cloudProvider)), r.at)
  /\ \A i, j \in DOMAIN requests :
       SameInputsBut(requests[i].at, requests[j].at,
                     {"isVpnEnabled", "connectionType", "transferType"})
         => requests[i].cloudUploadTime = requests[j].cloudUploadTime

\* an estimate of some files through onedrive was made without and then with
\* the VPN: the upload time changed, the cloud upload time did not
C22_Witness ==
  /\ Len(requests) = 2
  /\ requests[1].at.files # <<>>
  /\ requests[1].at.cloudProvider = "onedrive"
  /\ ~requests[1].at.isVpnEnabled
  /\ requests[2].at.isVpnEnabled
  /\ SameInputsBut(requests[1].at, requests[2].at, {"isVpnEnabled"})
  /\ requests[1].uploadTime # requests[2].uploadTime
  /\ requests[1].cloudUploadTime = requests[2].cloudUploadTime

\* the byte total of a file list, compression applied
ByteTotal(st) ==
  LET sum == TotalSize(st.files)
  IN IF st.compressionEnabled
       THEN Mul(sum, Add(QInt(1), Neg(Div(st.compressionRate, QInt(100)))))
       ELSE sum

\* n is the magnitude of bytes in the unit that brings it under 1024 (TB if
\* none does), to two decimals
IsMagnitudeOf(n, bytes) ==
  \E k \in DOMAIN units :
    /\ k = Len(units) \/ ~Leq(QInt(1024), Div(bytes, unitSizes(units[k])))
    /\ k = 1 \/ Leq(QInt(1024), Div(bytes, unitSizes(units[k - 1])))
    /\ Within001(n, Div(bytes, unitSizes(units[k])))

\* 10 KB, 10 MB, 10 GB in bytes
TenOfAUnit == {Mul(QInt(10), unitSizes(u)) : u \in {"KB", "MB", "GB"}}

(***************************************************************************)
(* C23.  The time formula is applied to the unit-normalized magnitude n of *)
(* the (possibly compressed) byte total, not to the bytes: each of the     *)
(* three times is n * 8 / (speed * 1024 * 1024) + networkLatency / 1000,   *)
(* with the latency added once to each; one file of 10 MB at 10 Mbps with  *)
(* latency 0 and no modifier gets the downloadTime 80 / (10 * 1024 *       *)
(* 1024); totals of 10 KB, 10 MB and 10 GB get the same times.             *)
(***************************************************************************)
C23_NormalizedMagnitude ==
  /\ \A i \in DOMAIN requests :
       LET r == requests[i]
       IN /\ IsMagnitudeOf(r.finalSize, ByteTotal(r.at))
          /\ r.downloadTime = TimeFormula(r.finalSize, r.effectiveDownloadSpeed, r.at)
          /\ r.uploadTime = TimeFormula(r.finalSize, r.effectiveUploadSpeed, r.at)
          /\ r.cloudUploadTime
               = TimeFormula(r.finalSize,
                             Mul(r.at.uploadSpeed, ProviderFactor(r.at.cloudProvider)),
                             r.at)
          /\ (/\ r.at.files = <<FileData(10485760)>>
              /\ SameInputsBut(r.at, [InitEst EXCEPT !.downloadSpeed = QInt(10),
                                                     !.networkLatency = QInt(0)],
                               {"files", "uploadSpeed", "cloudProvider"}))
               => r.downloadTime = Div(QInt(80), Mul(QInt(10), QInt(1048576)))
  /\ \A i, j \in DOMAIN requests :
       (/\ SameInputsBut(requests[i].at, requests[j].at, {"files"})
        /\ ByteTotal(requests[i].at) \in TenOfAUnit
        /\ ByteTotal(requests[j].at) \in TenOfAUnit)
         => /\ requests[i].downloadTime = requests[j].downloadTime
            /\ requests[i].uploadTime = requests[j].uploadTime
            /\ requests[i].cloudUploadTime = requests[j].cloudUploadTime

\* a file of 10 MB at 10 Mbps with latency 0 got 80 / (10 * 1024 * 1024), and
\* so did a file of 10 GB after it
C23_Witness ==
  /\ Len(requests) = 2
  /\ requests[1].at.files = <<FileData(10485760)>>
  /\ requests[1].at.downloadSpeed = QInt(10)
  /\ requests[1].at.networkLatency = QInt(0)
  /\ requests[1].downloadTime = Div(QInt(80), Mul(QInt(10), QInt(1048576)))
  /\ ByteTotal(requests[2].at) = Mul(QInt(10), unitSizes("GB"))
  /\ requests[2].downloadTime = requests[1].downloadTime

\* x is a number and x >= 0
NonNegative(x) == x.k = "fin" /\ Sign(x) >= 0

(***************************************************************************)
(* C24.  An estimation request with a compression rate within [0,100] and  *)
(* positive download and upload speeds gets a downloadTime, an uploadTime  *)
(* and a cloudUploadTime that are >= 0, whatever the latency.              *)
(***************************************************************************)
C24_TimesNonNegative ==
  \A i \in DOMAIN requests :
    LET r == requests[i]
    IN (/\ Leq(QInt(0), r.at.compressionRate)
        /\ Leq(r.at.compressionRate, QInt(100))
        /\ Sign(r.at.downloadSpeed) > 0
        /\ Sign(r.at.uploadSpeed) > 0)
       => /\ NonNegative(r.downloadTime)
          /\ NonNegative(r.uploadTime)
          /\ NonNegative(r.cloudUploadTime)

(***************************************************************************)
(* C25.  While the estimator view is mounted exactly one interval of the   *)
(* bandwidth simulator is set and not cleared, and none is once the view   *)
(* is unmounted, whatever mounts, speed changes and unmounts came before.  *)
(***************************************************************************)
C25_OneTimer ==
  /\ isEstimatorOpen => Len(timers) = 1
  /\ ~isEstimatorOpen => timers = <<>>

\* the view was opened, closed and opened again, and a speed was changed
\* since: one interval is set, and its callback reads the changed speed
C25_Witness ==
  /\ opens = 2
  /\ isEstimatorOpen
  /\ Len(timers) = 1
  /\ timers[1] # Callback(InitEst)
  /\ timers[1] = Callback(est)

\* the values of the view other than the displayed bandwidth
FrameOfTick == InputFields \cup {"downloadTime", "uploadTime", "cloudUploadTime"}

(***************************************************************************)
(* C26.  A tick of the bandwidth simulator leaves the file list, every     *)
(* configuration value and the three estimated times as they were; two     *)
(* estimation requests with the same files and configuration get the same  *)
(* three times, whatever currentBandwidth was and however many ticks came  *)
(* before each.                                                            *)
(***************************************************************************)
C26_TickOnlyBandwidth ==
  /\ [][ticks' # ticks => \A f \in FrameOfTick : est'[f] = est[f]]_vars
  /\ [](\A i, j \in DOMAIN requests :
          SameInputsBut(requests[i].at, requests[j].at, {}) =>
            /\ requests[i].downloadTime = requests[j].downloadTime
            /\ requests[i].uploadTime = requests[j].uploadTime
            /\ requests[i].cloudUploadTime = requests[j].cloudUploadTime)

\* an estimate of some files was made before and after a tick that changed the
\* displayed bandwidth, and the times were the same
C26_Witness ==
  /\ Len(requests) = 2
  /\ ticks >= 1
  /\ requests[1].at.files # <<>>
  /\ SameInputsBut(requests[1].at, requests[2].at, {})
  /\ requests[1].at.currentBandwidth # requests[2].at.currentBandwidth
  /\ requests[1].downloadTime = requests[2].downloadTime
  /\ est.downloadTime = requests[2].downloadTime

\* the value the probe of cycle c whose key is k stored last
StoredBy(c, k) ==
  CASE k = "ping" -> Str(Digits(cyc[c].pingMs) \o <<"ms">>)
    [] k = "download" ->
         Str(<<"Download Speed: ">> \o Fixed2(cyc[c].downloadSpeed) \o <<" MB/s">>)
    [] k = "upload" ->
         IF cyc[c].up = "ok"
           THEN Str(<<"Upload Speed: ">> \o Fixed2(cyc[c].uploadSpeed) \o <<" MB/s">>)
           ELSE results["upload"]
    [] OTHER -> ft[c][CHOOSE e \in FetchEndpoints : KeyOf(e) = k].wrote

(***************************************************************************)
(* C27.  Once a cycle has completed and no cycle was started after it, no  *)
(* result key holds its placeholder; when it is the only cycle started,    *)
(* each key holds the value the cycle's own probe stored last, a failure   *)
(* string for the probes that failed.                                      *)
(***************************************************************************)
C27_NoPlaceholderLeft ==
  \A c \in Cycles :
    (Completed(c) /\ started = c) =>
      /\ \A k \in Keys : results[k] # Placeholders[k] /\ results[k] # Undefined
      /\ c = 1 =>
           /\ \A k \in Keys : results[k] = StoredBy(c, k)
           /\ \A e \in FetchEndpoints \ {"ping"} :
                Exhausted(ft[c][e]) => FailureString(results[KeyOf(e)])
           /\ cyc[c].up = "failed" => FailureString(results["upload"])

\* the only cycle started has completed; its ssl probe failed three times, its
\* other probes succeeded
C27_Witness ==
  /\ started = 1
  /\ Completed(1)
  /\ Exhausted(ft[1]["ssl-check"])
  /\ results["ssl"] = Str(<<"Request failed: ", "Failed to fetch">>)
  /\ results["ip"] = Str(<<"v">>)
  /\ results["firewall"] = Str(<<"v">>)

\* the keys whose value a step changes
Changed == {k \in Keys : results'[k] # results[k]}

\* the probes an answer has come to in a step, each named by its key
Answered ==
  UNION {
    {KeyOf(e) : e \in {x \in FetchEndpoints : ft'[c][x].log # ft[c][x].log}}
    \cup (IF cyc[c].pc = "dlRead" /\ cyc'[c].pc = "upload" THEN {"download"} ELSE {})
    \cup (IF cyc[c].pc = "upload" /\ cyc'[c].pc = "batch" THEN {"upload"} ELSE {})
    : c \in Cycles }

(***************************************************************************)
(* C28.  A step in which a probe stores a value changes the key of that    *)
(* probe and no other key; the value is the one the probe stored, and      *)
(* while one cycle only has been started the key of each of its six        *)
(* concurrent probes keeps the value that probe stored last, in whichever  *)
(* order the answers come.                                                 *)
(***************************************************************************)
C28_WritesOwnKeyOnly ==
  /\ [][started' = started =>
          /\ Changed \subseteq Answered
          /\ Cardinality(Changed) <= 1
          /\ \A c \in Cycles, e \in TrailingEndpoints :
               ft'[c][e].wrote # ft[c][e].wrote =>
                 results'[KeyOf(e)] = ft'[c][e].wrote]_vars
  /\ [](started = 1 =>
          \A e \in TrailingEndpoints :
            ft[1][e].wrote # Undefined => results[KeyOf(e)] = ft[1][e].wrote)

\* the six concurrent probes of a cycle have returned, the first of them and
\* the last of them to be called after three failures, and each key holds what
\* its probe stored
C28_Witness ==
  /\ started = 1
  /\ Completed(1)
  /\ results["nmap"] = Str(<<"v">>)
  /\ results["services"] = Str(<<"v">>)
  /\ results["ports"] = Str(<<"Request failed: ", "HTTP error! status: ", "5", "0", "0">>)
  /\ ft[1]["firewall-check"].wrote = Str(<<"v">>)
  /\ results["firewall"] = Str(<<"v">>)

\* the bodies a download response can have
DownloadBodies == {resp.body : resp \in {r \in DownloadResponses : ~r.net /\ r.hasBody}}

(***************************************************************************)
(* C29.  While the download is read, the chunks collected are those the    *)
(* stream has delivered, in their order, and receivedLength is the sum of  *)
(* their lengths; the blob has that size, and the file the upload request  *)
(* of the cycle sends is made of those chunks: its size is the sum of the  *)
(* lengths of the chunks downloaded in that cycle.                         *)
(***************************************************************************)
C29_UploadIsDownload ==
  \A c \in Cycles :
    /\ cyc[c].pc = "dlRead" =>
         /\ cyc[c].chunks \o stream[c] \in DownloadBodies
         /\ cyc[c].receivedLength = Sum(cyc[c].chunks)
    /\ cyc[c].upReqs > 0 =>
         /\ cyc[c].chunks \in DownloadBodies
         /\ cyc[c].blobSize = cyc[c].receivedLength
         /\ cyc[c].uploadBody = cyc[c].chunks
         /\ Sum(cyc[c].uploadBody) = cyc[c].receivedLength

\* a download delivered 1024 bytes and then 3072, and the upload request sent
\* the 4096 bytes in that order
C29_Witness ==
  \E c \in Cycles :
    /\ cyc[c].upReqs = 1
    /\ cyc[c].uploadBody = <<1024, 3072>>
    /\ cyc[c].receivedLength = 4096

(***************************************************************************)
(* C30.  After the first cycle has been started, loading is true exactly   *)
(* in the states in which some cycle is in flight.                         *)
(***************************************************************************)
C30_LoadingIffRunning ==
  started >= 1 => (loading <=> \E c \in Cycles : Running(c))

(***************************************************************************)
(* C31.  The size convertFromBytes returns for a byte total that is not    *)
(* negative is below 1024 whenever the unit it returns is below TB.        *)
(***************************************************************************)
C31_SizeBelow1024 ==
  (conv.done /\ Sign(conv.size) >= 0 /\ conv.out.unit # "TB") =>
    ~Leq(QInt(1024), conv.out.size)

(***************************************************************************)
(* C32.  A download response with a non-OK status is a download failure:   *)
(* its body is not measured as a download speed, no "Download Speed: ..."  *)
(* string is stored for it, and its body is not sent as the upload file.   *)
(***************************************************************************)
C32_DownloadNeedsOk ==
  \A c \in Cycles :
    cyc[c].dl = "http" =>
      /\ cyc[c].downloadSpeed = Fin(0)
      /\ cyc[c].uploadBody = <<>>
      /\ cyc[c].upReqs = 0
      /\ started = c =>
           ~(results["download"].s # <<>> /\ Head(results["download"].s) = "Download Speed: ")

(***************************************************************************)
(* C33.  A step that starts a cycle sets progress to 0.                    *)
(***************************************************************************)
C33_ProgressReset == [][started' # started => progress'.num = 0]_vars

\* the three estimated times of a state of the view
Times(st) == <<st.downloadTime, st.uploadTime, st.cloudUploadTime>>

(***************************************************************************)
(* C34.  A step that is not an estimation request (files selected or       *)
(* dropped, a configuration value changed) leaves downloadTime, uploadTime *)
(* and cloudUploadTime as they were; an estimation request sets them to    *)
(* the times it computed, and one made with the files and configuration of *)
(* the request before it leaves them as that request set them.             *)
(***************************************************************************)
C34_TimesChangeOnEstimateOnly ==
  [][/\ requests' = requests => Times(est') = Times(est)
     /\ requests' # requests =>
          /\ Times(est') = Times(requests'[Len(requests')])
          /\ (requests # <<>> /\ SameInputsBut(est, requests[Len(requests)].at, {}))
               => Times(est') = Times(requests[Len(requests)])]_vars

\* some files were estimated twice in a row with the same times, other than
\* the initial ones, and the times stayed when another selection was made
C34_Witness ==
  /\ Len(requests) = 2
  /\ requests[1].at.files # <<>>
  /\ SameInputsBut(requests[1].at, requests[2].at, {})
  /\ Times(requests[1]) = Times(requests[2])
  /\ Times(requests[1]) # Times(InitEst)
  /\ est.files # requests[2].at.files
  /\ Times(est) = Times(requests[2])

====
